---- MODULE Spec2Model ----
(***************************************************************************)
(* Model of the mock payment provider, src/mock-provider/server.js: the    *)
(* token bucket, the circuit breaker, the /pay handler, the refill timer   *)
(* and /reset, as they run on node's single-threaded event loop.           *)
(*                                                                         *)
(* Time: one unit of `now` is 100 ms, the period of the refill timer; the  *)
(* clock advances with the timer's firings.                                *)
(* Tokens: the bucket is a float in the code; here it is counted in        *)
(* 1/UnitsPerSecond of a token, so that timePassed * tps is exact:         *)
(*   tokens_js = tokens / UnitsPerSecond.                                  *)
(* Random draws: Math.random() is a draw d in 0..Grid-1 standing for       *)
(* d/Grid; a rate is its numerator over Grid.                              *)
(* A handler runs without interruption between two awaits, so each such    *)
(* section is one action.                                                  *)
(***************************************************************************)
EXTENDS Integers, Sequences, FiniteSets, TLC

\* ------------------------------------------------------------------ bounds
\* Number of POST /pay requests of a run.
NumReq == 3
\* Last instant of the clock (in 100 ms units).
MaxTime == 3
\* Resolution of a random draw.
Grid == 4
\* Instants told apart within one period of the refill timer, where the time
\* within the period matters (the lazy bucket run side by side).
SubTicks == 2

\* 1000 ms / 100 ms: clock units per second, and token units per token.
UnitsPerSecond == 10

\* Milliseconds per second (the 1000 of the retryAfter hint).
MillisPerSecond == 1000

\* The numbers of the environment and the resolved settings of the startup
\* are held in thousandths: 0.05 is 50, 2 is 2000.
PerUnit == 1000

Requests == 1..NumReq
Draws == 0..(Grid - 1)

\* ------------------------------------------------------------------ state
VARIABLES
    config,          \* const config (resolved once at startup)
    now,             \* Date.now()
    tokens,          \* let tokens
    lastRefill,      \* let lastRefill
    circuitBreaker,  \* let circuitBreaker = {failures, lastFailure, state}
    metrics,         \* let metrics
    req,             \* the /pay requests: position and captured locals
    response,        \* the response sent by the last step, if it sent one
    hist             \* history of the run (observation only, never read by the code),
                     \* and process.env, which only the startup reads

vars == <<config, now, tokens, lastRefill, circuitBreaker, metrics, req, response, hist>>

\* ------------------------------------------------------------------ config
\* The configurations explored (values after resolution of the environment).
\* Rates are numerators over Grid; times are in clock units.
Configs ==
    { c \in
    [ tps : {4, 5, 6},
      burstSize : {2},
      minLatency : {0},
      maxLatency : {2},
      transientFailureRate : {1},
      permanentFailureRate : {1},
      timeoutRate : {1},
      timeoutDuration : {2},
      circuitBreakerEnabled : BOOLEAN,
      circuitBreakerThreshold : {1, 2},
      circuitBreakerTimeout : {1} ] :
      \/ c.circuitBreakerEnabled /\ c.circuitBreakerThreshold = 1 /\ c.tps = 5
      \/ c.circuitBreakerEnabled /\ c.circuitBreakerThreshold = 2 /\ c.tps = 4
      \/ ~c.circuitBreakerEnabled /\ c.circuitBreakerThreshold = 2 /\ c.tps = 6 }

\* ------------------------------------------------------------------ helpers
RECURSIVE GCD(_, _)
GCD(a, b) == IF b = 0 THEN a ELSE GCD(b, a % b)

\* A non-negative rational num/den in lowest terms.
Rat(num, den) ==
    LET g == GCD(num, den) IN
    IF num = 0 THEN [num |-> 0, den |-> 1] ELSE [num |-> num \div g, den |-> den \div g]

InitialMetrics(t) ==
    [ totalRequests |-> 0,
      successfulRequests |-> 0,
      failedRequests |-> 0,
      rateLimitedRequests |-> 0,
      timeoutRequests |-> 0,
      circuitBreakerTrips |-> 0,
      averageLatency |-> Rat(0, 1),
      startTime |-> t ]

InitialBreaker == [failures |-> 0, lastFailure |-> 0, state |-> "CLOSED"]

\* A response: the request it answers (0: none of /pay), its status, its shape,
\* and the fields of its body that depend on the request (0: absent).
Response(r, status, kind) ==
    [to |-> r, status |-> status, kind |-> kind, retryAfter |-> 0, amount |-> 0]

NoResponse == Response(0, 0, "none")

\* req.body.amount of the r-th request.
Amount(r) == 100 * r

\* An environment variable: not supplied, or a decimal number in thousandths.
Unset == [set |-> FALSE, v |-> 0]
Supplied(v) == [set |-> TRUE, v |-> v]

\* process.env of a run whose startup is not observed.
NoEnv ==
    [ TPS |-> Unset, TRANSIENT_FAILURE_RATE |-> Unset, PERMANENT_FAILURE_RATE |-> Unset,
      TIMEOUT_RATE |-> Unset, MIN_LATENCY |-> Unset, CIRCUIT_BREAKER |-> "unset" ]

\* The lazy token bucket of the reference, when it is not run: tokens in
\* 1/(UnitsPerSecond * SubTicks) of a token, last in 1/SubTicks of a clock
\* unit, and whether its levels and its decisions have agreed with the code's
\* (it is followed until a decision differs).
NoLazy == [on |-> FALSE, tokens |-> 0, last |-> 0, levels |-> TRUE, decisions |-> TRUE]

\* No outcome selection has been observed.
NoDecision == [made |-> FALSE, d1 |-> 0, d2 |-> 0, d3 |-> 0, outcome |-> "NONE"]

IdleRequest ==
    [ pc |-> "idle", amount |-> 0, startTime |-> 0, outcome |-> "NONE",
      wake |-> 0, gatePhase |-> "NONE" ]

InitialHist ==
    [ consecutive |-> 0,      \* failure reports since the last success report or reset
      lastReport |-> "none",  \* the last step's breaker report: "failure", "success" or "none"
      reportPhase |-> "NONE", \* the phase in which that report was made
      openTransitions |-> 0,  \* changes of the phase from CLOSED or HALF_OPEN to OPEN
      burstTokens |-> 0,      \* tokens at the last refill tick, reset or startup
      burstAdmitted |-> 0,    \* requests past the rate check since then
      burstRejected |-> 0,    \* requests rate limited since then
      drainedAt |-> 0,        \* clock at which a full bucket was emptied within one
                              \* refill period, until a later request meets the rate check
      latencySum |-> 0,       \* sum of the response times of the successes
      arrived |-> 0,          \* POST /pay requests that have arrived
      admitted |-> 0,         \* requests past the rate check since startup or reset
      decision |-> NoDecision,   \* the draws and the outcome of the last outcome selection
      env |-> NoEnv,          \* process.env as the startup read it (startup alone)
      lazy |-> NoLazy,        \* the lazy bucket of the reference, run side by side
      startup |-> "listening" ]  \* "loading", "loaded", "listening" or "error"

Init ==
    /\ config \in Configs
    /\ now = 1
    /\ tokens = config.burstSize * UnitsPerSecond
    /\ lastRefill = now
    /\ circuitBreaker = InitialBreaker
    /\ metrics = InitialMetrics(now)
    /\ req = [r \in Requests |-> IdleRequest]
    /\ response = NoResponse
    /\ hist = [InitialHist EXCEPT !.burstTokens = config.burstSize * UnitsPerSecond]


\* ------------------------------------------------------------------ timers
\* Variant: a reset drops the timers of the requests in flight.
WakeDue_DroppedByReset(r) ==
    req[r].pc = "waiting" /\ now >= req[r].wake /\ req[r].startTime >= metrics.startTime

\* The setTimeout of a waiting request is due.
WakeDue(r) == req[r].pc = "waiting" /\ now >= req[r].wake

\* ------------------------------------------------------------------ refill
\* Variant: the refill without Math.min.
RefilledTokens_Uncapped(tk, t, last) == tk + (t - last) * config.tps

\* Variant: the elapsed milliseconds are not divided by 1000, so that a
\* firing credits a whole second of tokens for each period of the timer.
RefilledTokens_PerPeriod(tk, t, last) ==
    LET tokensToAdd == (t - last) * config.tps * UnitsPerSecond
        full == config.burstSize * UnitsPerSecond
    IN  IF tk + tokensToAdd < full THEN tk + tokensToAdd ELSE full

\* setInterval(() => {...}, 100): tokens = min(tokens + timePassed * tps, burstSize).
RefilledTokens(tk, t, last) ==
    LET timePassed == t - last
        tokensToAdd == timePassed * config.tps
        full == config.burstSize * UnitsPerSecond
    IN  IF tk + tokensToAdd < full THEN tk + tokensToAdd ELSE full

\* The reference's refill at time tau (in 1/SubTicks of a clock unit):
\* min(burstCapacity, availableTokens + elapsedSeconds * tokensPerSecond).
LazyRefilled(l, tau) ==
    LET level == l.tokens + (tau - l.last) * config.tps
        full == config.burstSize * UnitsPerSecond * SubTicks
    IN  IF level < full THEN level ELSE full

\* The lazy bucket observed at a firing of the timer, against the code's level tk.
LazyAtTick(l, tau, tk) ==
    IF ~l.on \/ ~l.decisions THEN l
    ELSE [l EXCEPT !.tokens = LazyRefilled(l, tau), !.last = tau,
                   !.levels = @ /\ (LazyRefilled(l, tau) = tk * SubTicks)]

\* The reference's tryAdmit at time tau, against the code's decision.
LazyTryAdmit(l, tau, admitted) ==
    IF ~l.on \/ ~l.decisions THEN l
    ELSE LET level == LazyRefilled(l, tau)
             one == UnitsPerSecond * SubTicks
         IN  [l EXCEPT !.tokens = IF level >= one THEN level - one ELSE level,
                       !.last = tau,
                       !.decisions = ((level >= one) = admitted)]

\* The instants within the current period at which a section can run.
LazyPhases == IF hist.lazy.on THEN 0..(SubTicks - 1) ELSE {0}

\* One firing of the refill timer. The clock is read in units of the timer's
\* period, so a firing is what starts a new clock unit: 100 ms have passed
\* since the previous firing. The handlers are short synchronous sections, so
\* the event loop runs every setTimeout that falls due within a clock unit
\* before the next firing (in any order, interleaved with arriving requests).
Refill ==
    /\ now < MaxTime
    /\ \A r \in Requests : ~WakeDue(r)
    /\ now' = now + 1
    /\ tokens' = RefilledTokens(tokens, now', lastRefill)
    /\ lastRefill' = now'
    /\ hist' = [hist EXCEPT !.burstTokens = tokens',
                            !.burstAdmitted = 0, !.burstRejected = 0,
                            !.lazy = LazyAtTick(@, now' * SubTicks, tokens')]
    /\ response' = NoResponse
    /\ UNCHANGED <<config, circuitBreaker, metrics, req>>

\* ------------------------------------------------------------------ breaker
\* Variant: a rejection by the gate re-arms lastFailure.
checkCircuitBreaker_Rearm(cb, t) ==
    IF cb.state = "OPEN"
    THEN IF t - cb.lastFailure > config.circuitBreakerTimeout
         THEN [ok |-> TRUE, cb |-> [cb EXCEPT !.state = "HALF_OPEN"]]
         ELSE [ok |-> FALSE, cb |-> [cb EXCEPT !.lastFailure = t]]
    ELSE [ok |-> TRUE, cb |-> cb]

\* Variant: the gate compares with >= instead of >.
checkCircuitBreaker_Inclusive(cb, t) ==
    IF cb.state = "OPEN"
    THEN IF t - cb.lastFailure >= config.circuitBreakerTimeout
         THEN [ok |-> TRUE, cb |-> [cb EXCEPT !.state = "HALF_OPEN"]]
         ELSE [ok |-> FALSE, cb |-> cb]
    ELSE [ok |-> TRUE, cb |-> cb]

\* Variant: the rate check comes first, so a request that finds less than one
\* token is not answered by the gate.
checkCircuitBreaker_AfterRateCheck(cb, t) ==
    IF tokens < UnitsPerSecond THEN [ok |-> TRUE, cb |-> cb]
    ELSE IF cb.state = "OPEN"
    THEN IF t - cb.lastFailure > config.circuitBreakerTimeout
         THEN [ok |-> TRUE, cb |-> [cb EXCEPT !.state = "HALF_OPEN"]]
         ELSE [ok |-> FALSE, cb |-> cb]
    ELSE [ok |-> TRUE, cb |-> cb]

\* function checkCircuitBreaker(): the gate's answer and the breaker after it.
checkCircuitBreaker(cb, t) ==
    IF cb.state = "OPEN"
    THEN IF t - cb.lastFailure > config.circuitBreakerTimeout
         THEN [ok |-> TRUE, cb |-> [cb EXCEPT !.state = "HALF_OPEN"]]
         ELSE [ok |-> FALSE, cb |-> cb]
    ELSE [ok |-> TRUE, cb |-> cb]

\* Variant: a success closes the breaker from OPEN as well as from HALF_OPEN.
updateCircuitBreaker_CloseWhenOpen(cb, m, success, t) ==
    IF ~config.circuitBreakerEnabled THEN [cb |-> cb, metrics |-> m]
    ELSE IF success
    THEN IF cb.state # "CLOSED"
         THEN [cb |-> [cb EXCEPT !.state = "CLOSED", !.failures = 0], metrics |-> m]
         ELSE [cb |-> cb, metrics |-> m]
    ELSE LET failed == [cb EXCEPT !.failures = @ + 1, !.lastFailure = t] IN
         IF failed.failures >= config.circuitBreakerThreshold
         THEN [cb |-> [failed EXCEPT !.state = "OPEN"],
               metrics |-> [m EXCEPT !.circuitBreakerTrips = @ + 1]]
         ELSE [cb |-> failed, metrics |-> m]

\* Variant: closing the breaker also clears circuitBreakerTrips.
updateCircuitBreaker_ClearTrips(cb, m, success, t) ==
    IF ~config.circuitBreakerEnabled THEN [cb |-> cb, metrics |-> m]
    ELSE IF success
    THEN IF cb.state = "HALF_OPEN"
         THEN [cb |-> [cb EXCEPT !.state = "CLOSED", !.failures = 0],
               metrics |-> [m EXCEPT !.circuitBreakerTrips = 0]]
         ELSE [cb |-> cb, metrics |-> m]
    ELSE LET failed == [cb EXCEPT !.failures = @ + 1, !.lastFailure = t] IN
         IF failed.failures >= config.circuitBreakerThreshold
         THEN [cb |-> [failed EXCEPT !.state = "OPEN"],
               metrics |-> [m EXCEPT !.circuitBreakerTrips = @ + 1]]
         ELSE [cb |-> failed, metrics |-> m]

\* Variant: a failure reported while the phase is OPEN is not counted.
updateCircuitBreaker_FrozenWhileOpen(cb, m, success, t) ==
    IF ~config.circuitBreakerEnabled \/ (~success /\ cb.state = "OPEN")
    THEN [cb |-> cb, metrics |-> m]
    ELSE IF success
    THEN IF cb.state = "HALF_OPEN"
         THEN [cb |-> [cb EXCEPT !.state = "CLOSED", !.failures = 0], metrics |-> m]
         ELSE [cb |-> cb, metrics |-> m]
    ELSE LET failed == [cb EXCEPT !.failures = @ + 1, !.lastFailure = t] IN
         IF failed.failures >= config.circuitBreakerThreshold
         THEN [cb |-> [failed EXCEPT !.state = "OPEN"],
               metrics |-> [m EXCEPT !.circuitBreakerTrips = @ + 1]]
         ELSE [cb |-> failed, metrics |-> m]

\* Variant: the threshold is compared with > instead of >=.
updateCircuitBreaker_StrictThreshold(cb, m, success, t) ==
    IF ~config.circuitBreakerEnabled THEN [cb |-> cb, metrics |-> m]
    ELSE IF success
    THEN IF cb.state = "HALF_OPEN"
         THEN [cb |-> [cb EXCEPT !.state = "CLOSED", !.failures = 0], metrics |-> m]
         ELSE [cb |-> cb, metrics |-> m]
    ELSE LET failed == [cb EXCEPT !.failures = @ + 1, !.lastFailure = t] IN
         IF failed.failures > config.circuitBreakerThreshold
         THEN [cb |-> [failed EXCEPT !.state = "OPEN"],
               metrics |-> [m EXCEPT !.circuitBreakerTrips = @ + 1]]
         ELSE [cb |-> failed, metrics |-> m]

\* Variant: a success in HALF_OPEN closes the breaker without clearing failures.
updateCircuitBreaker_KeepFailures(cb, m, success, t) ==
    IF ~config.circuitBreakerEnabled THEN [cb |-> cb, metrics |-> m]
    ELSE IF success
    THEN IF cb.state = "HALF_OPEN"
         THEN [cb |-> [cb EXCEPT !.state = "CLOSED"], metrics |-> m]
         ELSE [cb |-> cb, metrics |-> m]
    ELSE LET failed == [cb EXCEPT !.failures = @ + 1, !.lastFailure = t] IN
         IF failed.failures >= config.circuitBreakerThreshold
         THEN [cb |-> [failed EXCEPT !.state = "OPEN"],
               metrics |-> [m EXCEPT !.circuitBreakerTrips = @ + 1]]
         ELSE [cb |-> failed, metrics |-> m]

\* Variant: the early return on a disabled breaker is missing.
updateCircuitBreaker_IgnoreEnabled(cb, m, success, t) ==
    IF success
    THEN IF cb.state = "HALF_OPEN"
         THEN [cb |-> [cb EXCEPT !.state = "CLOSED", !.failures = 0], metrics |-> m]
         ELSE [cb |-> cb, metrics |-> m]
    ELSE LET failed == [cb EXCEPT !.failures = @ + 1, !.lastFailure = t] IN
         IF failed.failures >= config.circuitBreakerThreshold
         THEN [cb |-> [failed EXCEPT !.state = "OPEN"],
               metrics |-> [m EXCEPT !.circuitBreakerTrips = @ + 1]]
         ELSE [cb |-> failed, metrics |-> m]

\* function updateCircuitBreaker(success): the breaker and the metrics after it.
updateCircuitBreaker(cb, m, success, t) ==
    IF ~config.circuitBreakerEnabled THEN [cb |-> cb, metrics |-> m]
    ELSE IF success
    THEN IF cb.state = "HALF_OPEN"
         THEN [cb |-> [cb EXCEPT !.state = "CLOSED", !.failures = 0], metrics |-> m]
         ELSE [cb |-> cb, metrics |-> m]
    ELSE LET failed == [cb EXCEPT !.failures = @ + 1, !.lastFailure = t] IN
         IF failed.failures >= config.circuitBreakerThreshold
         THEN [cb |-> [failed EXCEPT !.state = "OPEN"],
               metrics |-> [m EXCEPT !.circuitBreakerTrips = @ + 1]]
         ELSE [cb |-> failed, metrics |-> m]

\* ------------------------------------------------------------------ /pay
\* The three successive Math.random() tests of the handler (lines 180, 188, 196).
SimulatedOutcome(d1, d2, d3) ==
    IF d1 < config.timeoutRate THEN "TIMEOUT"
    ELSE IF d2 < config.permanentFailureRate THEN "PERMANENT_FAILURE"
    ELSE IF d3 < config.transientFailureRate THEN "TRANSIENT_FAILURE"
    ELSE "SUCCESS"

\* latency = minLatency + Math.random() * (maxLatency - minLatency), on the clock's grid.
SimulatedLatency(d) ==
    config.minLatency + ((d * (config.maxLatency - config.minLatency)) \div Grid)

\* What the draws of one request can yield.
Outcomes == {SimulatedOutcome(d1, d2, d3) : d1 \in Draws, d2 \in Draws, d3 \in Draws}

Latencies == {SimulatedLatency(d) : d \in Draws}

\* Variant: a timeout awaits the drawn latency.
DelayOf_AlwaysLatency(outcome, latency) == latency

\* The delay the handler awaits for an outcome.
DelayOf(outcome, latency) ==
    IF outcome = "TIMEOUT" THEN config.timeoutDuration ELSE latency

\* Variant: the rate check is tokens <= 1.
RateLimited_Inclusive(tk) == tk <= UnitsPerSecond

\* The rate check of the handler: tokens < 1.
RateLimited(tk) == tk < UnitsPerSecond

\* Variant: an admission takes all the tokens.
Debit_All(tk) == 0

\* tokens--
Debit(tk) == tk - UnitsPerSecond

\* Variant: a request is counted only once it has passed the rate check.
CountRequest_WhenAdmitted(m) ==
    IF RateLimited(tokens) THEN m ELSE [m EXCEPT !.totalRequests = @ + 1]

\* metrics.totalRequests++, the first statement of the handler after startTime.
CountRequest(m) == [m EXCEPT !.totalRequests = @ + 1]

\* Variant: Math.floor instead of Math.ceil.
RetryAfter_Floor(tps) == MillisPerSecond \div tps

\* retryAfter: Math.ceil(1 / config.tps * 1000), for an integer tps > 0.
RetryAfter(tps) == (MillisPerSecond + tps - 1) \div tps

\* The 429 response.
RateLimitResponse(r) ==
    [Response(r, 429, "rate_limited") EXCEPT !.retryAfter = RetryAfter(config.tps)]

\* The amount of the request that arrived last.
LatestAmount == Amount(CHOOSE q \in Requests :
                    req[q].pc # "idle" /\ \A p \in Requests : p > q => req[p].pc = "idle")

\* Variant: the success echoes the amount of the request that arrived last.
ResponseOf_LatestAmount(r, outcome, amount) ==
    CASE outcome = "TIMEOUT" -> Response(r, 408, "timeout")
      [] outcome = "PERMANENT_FAILURE" -> Response(r, 500, "permanent")
      [] outcome = "TRANSIENT_FAILURE" -> Response(r, 503, "transient")
      [] outcome = "SUCCESS" -> [Response(r, 200, "success") EXCEPT !.amount = LatestAmount]

\* Variant: the timeout answers 504.
ResponseOf_GatewayTimeout(r, outcome, amount) ==
    CASE outcome = "TIMEOUT" -> Response(r, 504, "timeout")
      [] outcome = "PERMANENT_FAILURE" -> Response(r, 500, "permanent")
      [] outcome = "TRANSIENT_FAILURE" -> Response(r, 503, "transient")
      [] outcome = "SUCCESS" -> [Response(r, 200, "success") EXCEPT !.amount = amount]

\* The response of an outcome; a success echoes req.body.amount.
ResponseOf(r, outcome, amount) ==
    CASE outcome = "TIMEOUT" -> Response(r, 408, "timeout")
      [] outcome = "PERMANENT_FAILURE" -> Response(r, 500, "permanent")
      [] outcome = "TRANSIENT_FAILURE" -> Response(r, 503, "transient")
      [] outcome = "SUCCESS" -> [Response(r, 200, "success") EXCEPT !.amount = amount]

\* Variant: a timeout is also counted as a failed request.
RecordFailure_TimeoutAlsoFailed(m, outcome) ==
    IF outcome = "TIMEOUT"
    THEN [m EXCEPT !.timeoutRequests = @ + 1, !.failedRequests = @ + 1]
    ELSE [m EXCEPT !.failedRequests = @ + 1]

\* The metrics after the failure branch of an outcome (lines 182, 190, 198).
RecordFailure(m, outcome) ==
    IF outcome = "TIMEOUT"
    THEN [m EXCEPT !.timeoutRequests = @ + 1]
    ELSE [m EXCEPT !.failedRequests = @ + 1]

\* Variant: the success is counted before the average is updated.
RecordSuccess_CountFirst(m, responseTime) ==
    LET n == m.successfulRequests + 1
        avg == m.averageLatency
    IN  [m EXCEPT !.averageLatency = Rat(avg.num * n + responseTime * avg.den, avg.den * (n + 1)),
                  !.successfulRequests = n]

\* The metrics after a success (lines 209..211).
RecordSuccess(m, responseTime) ==
    LET n == m.successfulRequests
        avg == m.averageLatency
    IN  [m EXCEPT !.averageLatency = Rat(avg.num * n + responseTime * avg.den, avg.den * (n + 1)),
                  !.successfulRequests = n + 1]

DoneRequest == [IdleRequest EXCEPT !.pc = "done"]

\* POST /pay from the start of the handler to its first await or its early return.
\* Requests are numbered in their order of arrival.
PayArrive(r) ==
    /\ req[r].pc = "idle"
    /\ \A q \in Requests : q < r => req[q].pc # "idle"
    /\ \E phase \in LazyPhases :
       LET counted == CountRequest(metrics)
           gate == checkCircuitBreaker(circuitBreaker, now)
           tau == now * SubTicks + phase
           passed == [hist EXCEPT !.lastReport = "none", !.reportPhase = "NONE",
                                  !.arrived = @ + 1,
                                  !.lazy = IF gate.ok
                                           THEN LazyTryAdmit(@, tau, ~RateLimited(tokens))
                                           ELSE @]
       IN
       /\ hist.lazy.on => tau >= hist.lazy.last
       /\ circuitBreaker' = gate.cb
       /\ IF ~gate.ok
          THEN /\ metrics' = [counted EXCEPT !.failedRequests = @ + 1]
               /\ req' = [req EXCEPT ![r] = DoneRequest]
               /\ response' = Response(r, 503, "breaker_open")
               /\ hist' = passed
               /\ UNCHANGED tokens
          ELSE IF RateLimited(tokens)
          THEN /\ metrics' = [counted EXCEPT !.rateLimitedRequests = @ + 1]
               /\ req' = [req EXCEPT ![r] = DoneRequest]
               /\ response' = RateLimitResponse(r)
               /\ hist' = [passed EXCEPT !.burstRejected = @ + 1,
                                         !.drainedAt = IF now > @ THEN 0 ELSE @]
               /\ UNCHANGED tokens
          ELSE /\ metrics' = counted
               /\ tokens' = Debit(tokens)
               /\ hist' = [passed EXCEPT !.burstAdmitted = @ + 1, !.admitted = @ + 1,
                      !.drainedAt = IF hist.burstTokens = config.burstSize * UnitsPerSecond
                                       /\ Debit(tokens) = 0
                                    THEN now ELSE 0]
               /\ response' = NoResponse
               /\ \E outcome \in Outcomes, latency \in Latencies :
                     req' = [req EXCEPT ![r] =
                            [ pc |-> "waiting", amount |-> Amount(r),
                              startTime |-> now, outcome |-> outcome,
                              wake |-> now + DelayOf(outcome, latency),
                              gatePhase |-> gate.cb.state ]]
    /\ UNCHANGED <<config, now, lastRefill>>

\* POST /pay from the end of its await to its response.
PayComplete(r) ==
    /\ WakeDue(r)
    /\ LET outcome == req[r].outcome
           success == outcome = "SUCCESS"
           recorded == IF success THEN RecordSuccess(metrics, now - req[r].startTime)
                                  ELSE RecordFailure(metrics, outcome)
           fed == updateCircuitBreaker(circuitBreaker, recorded, success, now)
       IN
       /\ circuitBreaker' = fed.cb
       /\ metrics' = fed.metrics
       /\ req' = [req EXCEPT ![r] = DoneRequest]
       /\ response' = ResponseOf(r, outcome, req[r].amount)
       /\ hist' = [hist EXCEPT
              !.lastReport = IF success THEN "success" ELSE "failure",
              !.reportPhase = circuitBreaker.state,
              !.consecutive = IF success THEN 0 ELSE @ + 1,
              !.latencySum = IF success THEN @ + (now - req[r].startTime) ELSE @,
              !.openTransitions =
                  IF circuitBreaker.state # "OPEN" /\ fed.cb.state = "OPEN" THEN @ + 1 ELSE @]
    /\ UNCHANGED <<config, now, tokens, lastRefill>>

\* ------------------------------------------------------------------ /reset
\* Variant: the reset leaves the bucket as it is.
Reset_KeepTokens ==
    /\ metrics' = InitialMetrics(now)
    /\ circuitBreaker' = InitialBreaker
    /\ hist' = [InitialHist EXCEPT !.burstTokens = tokens]
    /\ response' = Response(0, 200, "reset")
    /\ UNCHANGED <<config, now, tokens, lastRefill, req>>

\* POST /reset: a synchronous handler.
Reset ==
    /\ metrics' = InitialMetrics(now)
    /\ circuitBreaker' = InitialBreaker
    /\ tokens' = config.burstSize * UnitsPerSecond
    /\ hist' = [InitialHist EXCEPT !.burstTokens = tokens']
    /\ response' = Response(0, 200, "reset")
    /\ UNCHANGED <<config, now, lastRefill, req>>

\* ------------------------------------------------------------------ event loop
Next ==
    \/ Refill
    \/ \E r \in Requests : PayArrive(r)
    \/ \E r \in Requests : PayComplete(r)
    \/ Reset

Spec == Init /\ [][Next]_vars

\* The timers of Node fire: the refill interval keeps firing, and a setTimeout
\* that is due runs its continuation.
LiveSpec ==
    Spec /\ WF_vars(Refill) /\ \A r \in Requests : WF_vars(PayComplete(r))

\* The server left alone by POST /reset.
NextNoReset ==
    \/ Refill
    \/ \E r \in Requests : PayArrive(r)
    \/ \E r \in Requests : PayComplete(r)

SpecNoReset == Init /\ [][NextNoReset]_vars

\* ------------------------------------------------------------------ the breaker on a run without end
\* A run in which requests never stop arriving and the clock never stops.
\* The handlers compare timestamps only by their distance from Date.now()
\* (lines 57, 69), so the clock is read from a moving origin: now keeps its
\* value and, when a refill period passes, every timestamp the server holds
\* moves one period into the past instead. A lastFailure older than
\* circuitBreakerTimeout stays at the origin, where the gate reads it as
\* "now - lastFailure > circuitBreakerTimeout" however old it is. A request
\* that has been answered leaves its place to a later one. The counters of
\* metrics are written and never read by POST /pay, and are not followed;
\* failures is read only as "failures >= circuitBreakerThreshold" (line 93)
\* and is not counted further than one above the threshold.
Aged(ts) == IF ts > 0 THEN ts - 1 ELSE 0

Saturated(cb) ==
    [cb EXCEPT !.failures = IF @ > config.circuitBreakerThreshold + 1
                            THEN config.circuitBreakerThreshold + 1 ELSE @]

InitRecover ==
    /\ config \in Configs
    /\ now = config.circuitBreakerTimeout + 1
    /\ tokens = config.burstSize * UnitsPerSecond
    /\ lastRefill = now
    /\ circuitBreaker = InitialBreaker
    /\ metrics = InitialMetrics(now)
    /\ req = [r \in Requests |-> IdleRequest]
    /\ response = NoResponse
    /\ hist = InitialHist

\* One firing of the refill timer, one period after the previous one.
RefillRecover ==
    /\ \A r \in Requests : ~WakeDue(r)
    /\ tokens' = RefilledTokens(tokens, now + 1, lastRefill)
    /\ circuitBreaker' = [circuitBreaker EXCEPT !.lastFailure = Aged(@)]
    /\ req' = [r \in Requests |->
                 IF req[r].pc = "waiting" THEN [req[r] EXCEPT !.wake = @ - 1] ELSE req[r]]
    /\ response' = NoResponse
    /\ UNCHANGED <<config, now, lastRefill, metrics, hist>>

\* POST /pay up to its await or its early return: the gate, the rate check,
\* the debit and the draw of the outcome.
PayArriveRecover(r) ==
    /\ req[r].pc \in {"idle", "done"}
    /\ \A q \in Requests : q < r => req[q].pc = "waiting"
    /\ LET gate == checkCircuitBreaker(circuitBreaker, now) IN
       /\ circuitBreaker' = gate.cb
       /\ IF ~gate.ok
          THEN /\ req' = [req EXCEPT ![r] = DoneRequest]
               /\ response' = Response(r, 503, "breaker_open")
               /\ UNCHANGED tokens
          ELSE IF RateLimited(tokens)
          THEN /\ req' = [req EXCEPT ![r] = DoneRequest]
               /\ response' = RateLimitResponse(r)
               /\ UNCHANGED tokens
          ELSE /\ tokens' = Debit(tokens)
               /\ response' = NoResponse
               /\ \E outcome \in Outcomes, latency \in Latencies :
                     req' = [req EXCEPT ![r] =
                            [ pc |-> "waiting", amount |-> Amount(r),
                              startTime |-> now, outcome |-> outcome,
                              wake |-> now + DelayOf(outcome, latency),
                              gatePhase |-> gate.cb.state ]]
    /\ UNCHANGED <<config, now, lastRefill, metrics, hist>>

\* POST /pay after its await: the report to the breaker and the response.
PayCompleteRecover(r) ==
    /\ WakeDue(r)
    /\ LET outcome == req[r].outcome
           fed == updateCircuitBreaker(circuitBreaker, metrics, outcome = "SUCCESS", now)
       IN
       /\ circuitBreaker' = Saturated(fed.cb)
       /\ req' = [req EXCEPT ![r] = DoneRequest]
       /\ response' = ResponseOf(r, outcome, req[r].amount)
    /\ UNCHANGED <<config, now, tokens, lastRefill, metrics, hist>>

NextRecover ==
    \/ RefillRecover
    \/ \E r \in Requests : PayArriveRecover(r)
    \/ \E r \in Requests : PayCompleteRecover(r)

SpecRecover == InitRecover /\ [][NextRecover]_vars

\* The timers of Node fire, and requests keep arriving.
LiveRecover ==
    /\ SpecRecover
    /\ WF_vars(RefillRecover)
    /\ \A r \in Requests : WF_vars(PayCompleteRecover(r))
    /\ WF_vars(\E r \in Requests : PayArriveRecover(r))

\* ------------------------------------------------------------------ the bucket beside the lazy reference
\* The lazy bucket starts with the code's: full, last refilled at startup.
InitLazy ==
    /\ config \in Configs
    /\ now = 1
    /\ tokens = config.burstSize * UnitsPerSecond
    /\ lastRefill = now
    /\ circuitBreaker = InitialBreaker
    /\ metrics = InitialMetrics(now)
    /\ req = [r \in Requests |-> IdleRequest]
    /\ response = NoResponse
    /\ hist = [InitialHist EXCEPT
                 !.burstTokens = config.burstSize * UnitsPerSecond,
                 !.lazy = [on |-> TRUE,
                           tokens |-> config.burstSize * UnitsPerSecond * SubTicks,
                           last |-> now * SubTicks,
                           levels |-> TRUE, decisions |-> TRUE]]

\* The refill timer and the requests, each section at some instant of its period.
NextLazy ==
    \/ Refill
    \/ \E r \in Requests : PayArrive(r)
    \/ \E r \in Requests : PayComplete(r)

SpecLazy == InitLazy /\ [][NextLazy]_vars

\* ------------------------------------------------------------------ the GET endpoints
\* Variant: /health stores the floored token count it reports.
Health_StoresFloor ==
    /\ tokens' = (tokens \div UnitsPerSecond) * UnitsPerSecond
    /\ response' = Response(0, 200, "health")
    /\ UNCHANGED <<config, now, lastRefill, circuitBreaker, metrics, req, hist>>

\* GET /health: builds its body from config, tokens, circuitBreaker and metrics.
Health ==
    /\ response' = Response(0, 200, "health")
    /\ UNCHANGED <<config, now, tokens, lastRefill, circuitBreaker, metrics, req, hist>>

\* GET /metrics: res.json({...metrics, circuitBreaker, rateLimiter}).
GetMetrics ==
    /\ response' = Response(0, 200, "metrics")
    /\ UNCHANGED <<config, now, tokens, lastRefill, circuitBreaker, metrics, req, hist>>

\* GET /config: res.json(config).
GetConfig ==
    /\ response' = Response(0, 200, "config")
    /\ UNCHANGED <<config, now, tokens, lastRefill, circuitBreaker, metrics, req, hist>>

\* The event loop with the GET endpoints. They write nothing, so Spec, which
\* leaves them out, has the same states but for the response just sent.
NextReads == Next \/ Health \/ GetMetrics \/ GetConfig

SpecReads == Init /\ [][NextReads]_vars

\* ------------------------------------------------------------------ startup alone
\* The environments explored: each variable is not supplied or holds one of a
\* few decimal numbers; the variables not listed are not supplied.
Envs ==
    [ TPS : {Unset} \cup {Supplied(v) : v \in {-PerUnit, 0, PerUnit \div 2, 3 * PerUnit,
                                                 (5 * PerUnit) \div 2}},
      TRANSIENT_FAILURE_RATE : {Unset} \cup {Supplied(v) : v \in {0, (6 * PerUnit) \div 10}},
      PERMANENT_FAILURE_RATE : {Unset} \cup {Supplied(v) : v \in {PerUnit \div 5}},
      TIMEOUT_RATE : {Unset} \cup {Supplied(v) : v \in {-(PerUnit \div 2), 0,
                                                          (3 * PerUnit) \div 10}},
      MIN_LATENCY : {Unset} \cup {Supplied(v) : v \in {0, 100 * PerUnit}},
      CIRCUIT_BREAKER : {"unset", "true", "false"} ]

\* Not a number.
NaN == [nan |-> TRUE, v |-> 0]

\* parseInt(process.env.X): NaN when not supplied, else the integer part
\* (towards zero) of the decimal number.
ParseInt(e) ==
    IF ~e.set THEN NaN
    ELSE [nan |-> FALSE,
          v |-> IF e.v >= 0 THEN (e.v \div PerUnit) * PerUnit
                           ELSE -(((-e.v) \div PerUnit) * PerUnit)]

\* parseFloat(process.env.X): NaN when not supplied, else the number.
ParseFloat(e) == IF ~e.set THEN NaN ELSE [nan |-> FALSE, v |-> e.v]

\* x || d: the default replaces every falsy value, NaN and 0.
OrDefault(x, d) == IF x.nan \/ x.v = 0 THEN d ELSE x.v

\* The defaults of the settings (the right-hand sides of the ||).
DefaultConfig ==
    [ tps |-> 2 * PerUnit,
      burstSize |-> 5 * PerUnit,
      minLatency |-> 200 * PerUnit,
      maxLatency |-> 800 * PerUnit,
      transientFailureRate |-> PerUnit \div 5,
      permanentFailureRate |-> PerUnit \div 20,
      timeoutRate |-> PerUnit \div 10,
      timeoutDuration |-> 10000 * PerUnit,
      circuitBreakerEnabled |-> FALSE,
      circuitBreakerThreshold |-> 5 * PerUnit,
      circuitBreakerTimeout |-> 30000 * PerUnit ]

\* const config = {...}: the settings resolved from the environment.
ResolveConfig(e) ==
    [ tps |-> OrDefault(ParseInt(e.TPS), DefaultConfig.tps),
      burstSize |-> OrDefault(ParseInt(Unset), DefaultConfig.burstSize),
      minLatency |-> OrDefault(ParseInt(e.MIN_LATENCY), DefaultConfig.minLatency),
      maxLatency |-> OrDefault(ParseInt(Unset), DefaultConfig.maxLatency),
      transientFailureRate |->
          OrDefault(ParseFloat(e.TRANSIENT_FAILURE_RATE), DefaultConfig.transientFailureRate),
      permanentFailureRate |->
          OrDefault(ParseFloat(e.PERMANENT_FAILURE_RATE), DefaultConfig.permanentFailureRate),
      timeoutRate |-> OrDefault(ParseFloat(e.TIMEOUT_RATE), DefaultConfig.timeoutRate),
      timeoutDuration |-> OrDefault(ParseInt(Unset), DefaultConfig.timeoutDuration),
      circuitBreakerEnabled |-> e.CIRCUIT_BREAKER = "true",
      circuitBreakerThreshold |->
          OrDefault(ParseInt(Unset), DefaultConfig.circuitBreakerThreshold),
      circuitBreakerTimeout |-> OrDefault(ParseInt(Unset), DefaultConfig.circuitBreakerTimeout) ]

\* Before the module is loaded: the environment is given, nothing is defined.
InitStartup ==
    /\ config = DefaultConfig
    /\ now = 1
    /\ tokens = 0
    /\ lastRefill = 0
    /\ circuitBreaker = InitialBreaker
    /\ metrics = InitialMetrics(0)
    /\ req = [r \in Requests |-> IdleRequest]
    /\ response = NoResponse
    /\ \E e \in Envs : hist = [InitialHist EXCEPT !.env = e, !.startup = "loading"]

\* The module body (lines 8..52): config, tokens, lastRefill, circuitBreaker
\* and metrics are defined. No statement validates a setting or throws.
Load ==
    /\ hist.startup = "loading"
    /\ config' = ResolveConfig(hist.env)
    /\ tokens' = (config'.burstSize \div PerUnit) * UnitsPerSecond
    /\ lastRefill' = now
    /\ circuitBreaker' = InitialBreaker
    /\ metrics' = InitialMetrics(now)
    /\ hist' = [hist EXCEPT !.startup = "loaded", !.burstTokens = tokens']
    /\ UNCHANGED <<now, req, response>>

\* app.listen(PORT, ...): from here on the handlers serve requests.
Listen ==
    /\ hist.startup = "loaded"
    /\ hist' = [hist EXCEPT !.startup = "listening"]
    /\ UNCHANGED <<config, now, tokens, lastRefill, circuitBreaker, metrics, req, response>>

NextStartup == Load \/ Listen

SpecStartup == InitStartup /\ [][NextStartup]_vars

\* ------------------------------------------------------------------ outcome selection alone
\* The rates explored for the outcome selection; their sum is at most 1.
OutcomeConfigs ==
    { [c EXCEPT !.timeoutRate = t, !.permanentFailureRate = p, !.transientFailureRate = f] :
        <<c, t, p, f>> \in { x \in Configs \X (1..2) \X (1..2) \X (1..2) :
                                x[2] + x[3] + x[4] <= Grid } }

InitOutcome ==
    /\ config \in OutcomeConfigs
    /\ now = 1
    /\ tokens = config.burstSize * UnitsPerSecond
    /\ lastRefill = now
    /\ circuitBreaker = InitialBreaker
    /\ metrics = InitialMetrics(now)
    /\ req = [r \in Requests |-> IdleRequest]
    /\ response = NoResponse
    /\ hist = [InitialHist EXCEPT !.burstTokens = config.burstSize * UnitsPerSecond]

\* The outcome selection of one admitted request (lines 180, 188, 196), each
\* test with its own Math.random().
Decide(d1, d2, d3) ==
    /\ hist' = [hist EXCEPT !.decision =
                   [made |-> TRUE, d1 |-> d1, d2 |-> d2, d3 |-> d3,
                    outcome |-> SimulatedOutcome(d1, d2, d3)]]
    /\ UNCHANGED <<config, now, tokens, lastRefill, circuitBreaker, metrics, req, response>>

NextOutcome == \E d1 \in Draws, d2 \in Draws, d3 \in Draws : Decide(d1, d2, d3)

SpecOutcome == InitOutcome /\ [][NextOutcome]_vars


\* ------------------------------------------------------------------ steps
\* The step is the first section of request r (its arrival).
Arrives(r) == req[r].pc = "idle" /\ req'[r].pc # "idle"

\* The step is the second section of request r (after its delay).
Completes(r) == req[r].pc = "waiting" /\ req'[r].pc = "done"

Full == config.burstSize * UnitsPerSecond

Waiting == {r \in Requests : req[r].pc = "waiting"}

\* ------------------------------------------------------------------ claims

\* C1: in every reachable state the token count is between 0 and burstSize.
C1_TokensInRange == 0 <= tokens /\ tokens <= Full

\* The bucket was emptied by admissions, after the refill timer had run: a
\* refill of a fraction of a token (tps/10 per period) did not lift the empty
\* bucket to a whole token, and the next one did.
C1_Witness == tokens = 0 /\ lastRefill > 1 /\ hist.burstAdmitted > 0

\* C2: of M requests that pass the breaker gate with no refill tick or reset
\* between them, against a bucket that held C whole tokens with C < M,
\* exactly C pass the rate check and exactly M - C are rate limited.
C2_BurstAdmitsExactlyCapacity ==
    LET C == hist.burstTokens \div UnitsPerSecond
        M == hist.burstAdmitted + hist.burstRejected
    IN  (hist.burstTokens % UnitsPerSecond = 0 /\ C < M)
            => (hist.burstAdmitted = C /\ hist.burstRejected = M - C)

\* Three requests against two whole tokens, one of them still in its delay
\* while another is rejected.
C2_Witness ==
    /\ hist.burstTokens = 2 * UnitsPerSecond
    /\ hist.burstAdmitted = 2
    /\ hist.burstRejected = 1
    /\ Waiting # {}
    /\ response.kind = "rate_limited"

\* C3: with the breaker enabled, after circuitBreakerThreshold consecutive
\* failure reports the phase is OPEN, and a gate check made in phase OPEN
\* before circuitBreakerTimeout has elapsed since lastFailure rejects the
\* request and leaves the breaker as it is.
C3_OpenAfterThresholdStep ==
    \A r \in Requests :
        /\ (/\ Completes(r)
            /\ config.circuitBreakerEnabled
            /\ hist'.lastReport = "failure"
            /\ hist'.consecutive >= config.circuitBreakerThreshold)
              => circuitBreaker'.state = "OPEN"
        /\ (/\ Arrives(r)
            /\ config.circuitBreakerEnabled
            /\ circuitBreaker.state = "OPEN"
            /\ now - circuitBreaker.lastFailure < config.circuitBreakerTimeout)
              => (/\ circuitBreaker' = circuitBreaker
                  /\ response'.to = r
                  /\ response'.kind = "breaker_open"
                  /\ req'[r].pc = "done")

C3_OpenAfterThreshold == [][C3_OpenAfterThresholdStep]_vars

\* Two consecutive failures opened the breaker (threshold 2), and a request
\* arriving before the timeout has elapsed has just been rejected.
C3_Witness ==
    /\ config.circuitBreakerThreshold = 2
    /\ hist.consecutive = 2
    /\ circuitBreaker.state = "OPEN"
    /\ now - circuitBreaker.lastFailure < config.circuitBreakerTimeout
    /\ response.kind = "breaker_open"

\* C4: in phase HALF_OPEN a success report closes the breaker with failures = 0,
\* and a failure report reopens it, sets lastFailure to the current time and
\* increments circuitBreakerTrips by one.
C4_HalfOpenStep ==
    \A r \in Requests :
        (Completes(r) /\ circuitBreaker.state = "HALF_OPEN") =>
            IF req[r].outcome = "SUCCESS"
            THEN /\ circuitBreaker'.state = "CLOSED"
                 /\ circuitBreaker'.failures = 0
                 /\ metrics'.circuitBreakerTrips = metrics.circuitBreakerTrips
            ELSE /\ circuitBreaker'.state = "OPEN"
                 /\ circuitBreaker'.lastFailure = now
                 /\ metrics'.circuitBreakerTrips = metrics.circuitBreakerTrips + 1

C4_HalfOpenReports == [][C4_HalfOpenStep]_vars

\* A trial request has failed in HALF_OPEN and reopened the breaker.
C4_Witness ==
    /\ hist.lastReport = "failure"
    /\ hist.reportPhase = "HALF_OPEN"
    /\ circuitBreaker.state = "OPEN"
    /\ circuitBreaker.lastFailure = now
    /\ metrics.circuitBreakerTrips = 2

\* C5 as stated: a gate check in phase OPEN moves to HALF_OPEN and admits the
\* request exactly when now - lastFailure >= circuitBreakerTimeout.
C5_OriginalStep ==
    \A r \in Requests :
        (Arrives(r) /\ circuitBreaker.state = "OPEN") =>
            IF now - circuitBreaker.lastFailure >= config.circuitBreakerTimeout
            THEN circuitBreaker'.state = "HALF_OPEN" /\ response'.kind # "breaker_open"
            ELSE circuitBreaker' = circuitBreaker /\ response'.kind = "breaker_open"

C5_Original == [][C5_OriginalStep]_vars

\* C5 (amended): a gate check in phase OPEN moves to HALF_OPEN and admits the
\* request exactly when now - lastFailure > circuitBreakerTimeout (strictly:
\* at equality it still rejects and the phase stays OPEN); and no step moves
\* the phase from OPEN to HALF_OPEN unless now - lastFailure > circuitBreakerTimeout.
C5_AmendedStep ==
    /\ \A r \in Requests :
        (Arrives(r) /\ circuitBreaker.state = "OPEN") =>
            IF now - circuitBreaker.lastFailure > config.circuitBreakerTimeout
            THEN circuitBreaker'.state = "HALF_OPEN" /\ response'.kind # "breaker_open"
            ELSE circuitBreaker' = circuitBreaker /\ response'.kind = "breaker_open"
    /\ (circuitBreaker.state = "OPEN" /\ circuitBreaker'.state = "HALF_OPEN")
          => now - circuitBreaker.lastFailure > config.circuitBreakerTimeout

C5_Amended == [][C5_AmendedStep]_vars

\* A request has been rejected by the gate exactly circuitBreakerTimeout after
\* the last failure.
C5_Witness ==
    /\ circuitBreaker.state = "OPEN"
    /\ now - circuitBreaker.lastFailure = config.circuitBreakerTimeout
    /\ response.kind = "breaker_open"


\* C6: while the phase is HALF_OPEN at most one trial request is let through
\* the gate: no two requests that passed the gate in HALF_OPEN are in their
\* delay at the same time.
C6_OneTrialAtATime ==
    Cardinality({r \in Waiting : req[r].gatePhase = "HALF_OPEN"}) <= 1

\* C7: circuitBreakerTrips equals the number of changes of the phase from
\* CLOSED or HALF_OPEN to OPEN since startup or the last reset.
C7_TripsCountTransitions == metrics.circuitBreakerTrips = hist.openTransitions

\* C8: with the breaker disabled every gate check passes and no outcome
\* changes the breaker: it stays CLOSED with failures = 0 and lastFailure = 0,
\* circuitBreakerTrips stays 0, and a failed or timed-out request is still
\* counted in failedRequests or timeoutRequests.
C8_DisabledBreakerInert ==
    ~config.circuitBreakerEnabled =>
        /\ circuitBreaker = InitialBreaker
        /\ metrics.circuitBreakerTrips = 0
        /\ response.kind # "breaker_open"
        /\ response.kind \in {"permanent", "transient"} => metrics.failedRequests >= 1
        /\ response.kind = "timeout" => metrics.timeoutRequests >= 1

\* With the breaker disabled, more failures than the threshold have been
\* reported, at a time other than 0, the last of them a timeout.
C8_Witness ==
    /\ ~config.circuitBreakerEnabled
    /\ hist.consecutive > config.circuitBreakerThreshold
    /\ metrics.failedRequests >= 1
    /\ metrics.timeoutRequests >= 1
    /\ response.kind = "timeout"

\* C9: in the state in which POST /reset responds every metrics counter and
\* averageLatency are 0, the breaker is CLOSED with failures = 0 and
\* lastFailure = 0, and tokens = burstSize (the handler is one synchronous
\* section: no other step runs inside it).
C9_ResetRestoresAll ==
    response.kind = "reset" =>
        /\ metrics.totalRequests = 0
        /\ metrics.successfulRequests = 0
        /\ metrics.failedRequests = 0
        /\ metrics.rateLimitedRequests = 0
        /\ metrics.timeoutRequests = 0
        /\ metrics.circuitBreakerTrips = 0
        /\ metrics.averageLatency = Rat(0, 1)
        /\ circuitBreaker = InitialBreaker
        /\ tokens = Full

\* A reset has just run while one request was in its delay and another had
\* been answered, after the refill timer had run.
C9_Witness ==
    /\ response.kind = "reset"
    /\ Waiting # {}
    /\ \E r \in Requests : req[r].pc = "done"
    /\ lastRefill > 1

\* C10: a step of a request that ends it without success increments exactly
\* one of failedRequests, rateLimitedRequests, timeoutRequests, by one; any
\* other step of a request (its admission, its success) increments none.
C10_FailureCountersStep ==
    LET dF == metrics'.failedRequests - metrics.failedRequests
        dR == metrics'.rateLimitedRequests - metrics.rateLimitedRequests
        dT == metrics'.timeoutRequests - metrics.timeoutRequests
    IN  \A r \in Requests :
            (Arrives(r) \/ Completes(r)) =>
                IF req'[r].pc = "done" /\ response'.status # 200
                THEN /\ response'.to = r
                     /\ {dF, dR, dT} = {0, 1}
                     /\ dF + dR + dT = 1
                ELSE dF = 0 /\ dR = 0 /\ dT = 0

C10_FailureCounters == [][C10_FailureCountersStep]_vars

\* A request has timed out and only timeoutRequests counts it.
C10_Witness ==
    /\ response.kind = "timeout"
    /\ metrics.timeoutRequests = 1
    /\ metrics.failedRequests = 0
    /\ metrics.rateLimitedRequests = 0
    /\ metrics.totalRequests = 1

\* C11 as stated: a request whose outcome is TIMEOUT answers 408, reports a
\* failure to the breaker, and increments both timeoutRequests and
\* failedRequests by one.
C11_OriginalStep ==
    \A r \in Requests :
        (Completes(r) /\ req[r].outcome = "TIMEOUT") =>
            /\ response'.to = r /\ response'.status = 408
            /\ hist'.lastReport = "failure"
            /\ metrics'.timeoutRequests = metrics.timeoutRequests + 1
            /\ metrics'.failedRequests = metrics.failedRequests + 1

C11_Original == [][C11_OriginalStep]_vars

\* C11 (amended): a request whose outcome is TIMEOUT answers 408 after
\* timeoutDuration, reports a failure to the breaker (which counts it when
\* enabled), and increments timeoutRequests by one; failedRequests,
\* successfulRequests and rateLimitedRequests are unchanged.
C11_AmendedStep ==
    \A r \in Requests :
        (Completes(r) /\ req[r].outcome = "TIMEOUT") =>
            /\ response'.to = r /\ response'.status = 408
            /\ now - req[r].startTime >= config.timeoutDuration
            /\ hist'.lastReport = "failure"
            /\ config.circuitBreakerEnabled =>
                   /\ circuitBreaker'.failures = circuitBreaker.failures + 1
                   /\ circuitBreaker'.lastFailure = now
            /\ metrics'.timeoutRequests = metrics.timeoutRequests + 1
            /\ metrics'.failedRequests = metrics.failedRequests
            /\ metrics'.successfulRequests = metrics.successfulRequests
            /\ metrics'.rateLimitedRequests = metrics.rateLimitedRequests

C11_Amended == [][C11_AmendedStep]_vars

\* A timeout has been answered and counted by the enabled breaker, after an
\* earlier failure of another kind: failedRequests counts that one only.
C11_Witness ==
    /\ response.kind = "timeout"
    /\ config.circuitBreakerEnabled
    /\ circuitBreaker.failures = 2
    /\ circuitBreaker.lastFailure = now
    /\ metrics.timeoutRequests = 1
    /\ metrics.failedRequests = 1

\* The reference of the claim: cumulative bands of one draw.
C12_BandOutcome(d) ==
    IF d < config.timeoutRate THEN "TIMEOUT"
    ELSE IF d < config.timeoutRate + config.permanentFailureRate THEN "PERMANENT_FAILURE"
    ELSE IF d < config.timeoutRate + config.permanentFailureRate
                  + config.transientFailureRate THEN "TRANSIENT_FAILURE"
    ELSE "SUCCESS"

\* C12: the outcome selected for an admitted request is the band of its
\* first draw: TIMEOUT below timeoutRate, PERMANENT_FAILURE below timeoutRate +
\* permanentFailureRate, TRANSIENT_FAILURE below the sum of the three rates,
\* SUCCESS otherwise.
C12_OutcomeIsBandOfOneDraw ==
    hist.decision.made => hist.decision.outcome = C12_BandOutcome(hist.decision.d1)

\* C13: a request answers at most once, with one of the five shapes (200
\* success, 429 rate limited, 503 breaker open or transient, 500 permanent,
\* 408 timeout), in the step that ends it; an answered request takes no
\* further step and no later step changes anything on its behalf.
C13_Shapes ==
    { <<200, "success">>, <<429, "rate_limited">>, <<503, "breaker_open">>,
      <<503, "transient">>, <<500, "permanent">>, <<408, "timeout">> }

C13_OneResponseStep ==
    \A r \in Requests :
        /\ req[r].pc = "done" => (req'[r] = req[r] /\ response'.to # r)
        /\ response'.to = r =>
              /\ req[r].pc # "done" /\ req'[r].pc = "done"
              /\ <<response'.status, response'.kind>> \in C13_Shapes
              /\ \A q \in Requests \ {r} : req'[q] = req[q]
        /\ (req[r].pc # "done" /\ req'[r].pc = "done") => response'.to = r

C13_OneResponse == [][C13_OneResponseStep]_vars

\* All requests have been answered, the last one with a timeout while the
\* others had been answered before it.
C13_Witness ==
    /\ \A r \in Requests : req[r].pc = "done"
    /\ response.kind = "timeout"
    /\ response.to = 1
    /\ metrics.successfulRequests >= 1

\* C14: every request reaches its response: a request rejected by the breaker
\* or by the rate limiter answers in the step of its arrival; an admitted
\* request answers once, no earlier than the end of its delay, and it does
\* answer whatever requests, refill ticks and resets interleave (for the
\* delays that end within the horizon MaxTime of the clock).
C14_RespondsStep ==
    \A r \in Requests :
        /\ Arrives(r) =>
              \/ req'[r].pc = "done" /\ response'.to = r
                    /\ response'.kind \in {"breaker_open", "rate_limited"}
              \/ req'[r].pc = "waiting" /\ req'[r].wake >= now
        /\ Completes(r) => (now >= req[r].wake /\ response'.to = r)
        /\ req[r].pc = "waiting" => (req'[r] = req[r] \/ Completes(r))

C14_EventuallyResponds ==
    /\ [][C14_RespondsStep]_vars
    /\ \A r \in Requests :
          (req[r].pc = "waiting" /\ req[r].wake <= MaxTime) ~> (req[r].pc = "done")

\* A request admitted before a reset has been answered after it, at the end
\* of a delay that spanned a refill tick.
C14_Witness ==
    /\ response.to # 0
    /\ response.kind = "success"
    /\ metrics.totalRequests = 0
    /\ metrics.successfulRequests = 1
    /\ metrics.startTime < now

\* A wait of 1/tps seconds between a section run at clock reading d and one
\* run at clock reading c: the clock is read in refill periods, so the time
\* between the two sections is any value strictly between c - d - 1 and
\* c - d + 1 periods.
C15_WaitedOneOverR(d, c) ==
    /\ (c - d - 1) * config.tps < UnitsPerSecond
    /\ UnitsPerSecond < (c - d + 1) * config.tps

\* C15: after burstSize requests have emptied a full bucket with no time
\* elapsing between them, a request that meets the rate check 1/tps seconds
\* later, with no other request in between, passes it.
C15_RefillAfterDrainStep ==
    \A r \in Requests :
        (/\ Arrives(r)
         /\ response'.kind # "breaker_open"
         /\ hist.drainedAt > 0
         /\ now > hist.drainedAt
         /\ C15_WaitedOneOverR(hist.drainedAt, now))
            => req'[r].pc = "waiting"

C15_RefillAfterDrain == [][C15_RefillAfterDrainStep]_vars

\* C16: a request that ends as a rate-limit rejection leaves the breaker's
\* phase, failures, lastFailure and circuitBreakerTrips as they were when it
\* arrived.
C16_RateLimitKeepsBreakerStep ==
    \A r \in Requests :
        (Arrives(r) /\ response'.kind = "rate_limited") =>
            /\ circuitBreaker' = circuitBreaker
            /\ metrics'.circuitBreakerTrips = metrics.circuitBreakerTrips

C16_RateLimitKeepsBreaker == [][C16_RateLimitKeepsBreakerStep]_vars

\* C17: a rejection by the open breaker makes no report to the breaker and
\* leaves failures, lastFailure, the phase and circuitBreakerTrips unchanged
\* (so the time at which the breaker becomes eligible for HALF_OPEN,
\* lastFailure + circuitBreakerTimeout, is not moved by rejections).
C17_RejectionKeepsBreakerStep ==
    \A r \in Requests :
        (Arrives(r) /\ response'.kind = "breaker_open") =>
            /\ circuitBreaker.state = "OPEN"
            /\ circuitBreaker' = circuitBreaker
            /\ metrics'.circuitBreakerTrips = metrics.circuitBreakerTrips
            /\ hist'.lastReport = "none"

C17_RejectionKeepsBreaker == [][C17_RejectionKeepsBreakerStep]_vars

\* A request has been rejected by the open breaker one period after the only
\* failure: failedRequests counts both, the breaker counts the failure only.
C17_Witness ==
    /\ response.kind = "breaker_open"
    /\ circuitBreaker.state = "OPEN"
    /\ circuitBreaker.failures = 1
    /\ circuitBreaker.lastFailure < now
    /\ metrics.failedRequests = 2
    /\ metrics.circuitBreakerTrips = 1

\* C18: the retryAfter of a 429 response is the least integer number of
\* milliseconds that is at least 1000 / tps, and it is positive.
C18_RetryAfterIsCeiling ==
    response.kind = "rate_limited" =>
        /\ response.status = 429
        /\ response.retryAfter > 0
        /\ response.retryAfter * config.tps >= MillisPerSecond
        /\ (response.retryAfter - 1) * config.tps < MillisPerSecond

\* A 429 with tps = 6: 1000 / 6 is not an integer and retryAfter is 167.
C18_Witness ==
    /\ response.kind = "rate_limited"
    /\ config.tps = 6
    /\ response.retryAfter = 167

\* C19: averageLatency is the sum of the response times of the successes
\* since startup or the last reset divided by their number (0 when there is
\* none), in whatever order they completed and whatever other requests ended
\* in between; and only a successful completion or a reset changes it.
C19_IsMean ==
    LET n == metrics.successfulRequests
        avg == metrics.averageLatency
    IN  IF n = 0 THEN avg.num = 0 /\ hist.latencySum = 0
        ELSE avg.num * n = hist.latencySum * avg.den

C19_ChangesOnlyOnSuccessOrResetStep ==
    metrics'.averageLatency # metrics.averageLatency =>
        \/ \E r \in Requests : Completes(r) /\ req[r].outcome = "SUCCESS"
        \/ response'.kind = "reset"

C20_AmountEchoed ==
    response.kind = "success" =>
        (response.to \in Requests /\ response.amount = Amount(response.to))

\* The first request has succeeded while the second, with another amount, is
\* in its delay.
C20_Witness ==
    /\ response.kind = "success"
    /\ response.to = 1
    /\ response.amount = Amount(1)
    /\ req[2].pc = "waiting"
    /\ req[2].amount = Amount(2)

\* The values the claim calls invalid: a negative rate, rates whose sum
\* exceeds 1, a non-positive TPS; the rates are read as supplied, and as their
\* defaults where not supplied.
C21_Rate(e, d) == IF e.set THEN e.v ELSE d

C21_InvalidValues(e) ==
    \/ e.TPS.set /\ e.TPS.v <= 0
    \/ \E x \in {e.TRANSIENT_FAILURE_RATE, e.PERMANENT_FAILURE_RATE, e.TIMEOUT_RATE} :
          x.set /\ x.v < 0
    \/ C21_Rate(e.TRANSIENT_FAILURE_RATE, DefaultConfig.transientFailureRate)
          + C21_Rate(e.PERMANENT_FAILURE_RATE, DefaultConfig.permanentFailureRate)
          + C21_Rate(e.TIMEOUT_RATE, DefaultConfig.timeoutRate) > PerUnit

\* C21: with invalid values in the environment the startup ends in an error:
\* the module is never loaded with them and the server never listens, and no
\* loaded config holds a non-positive tps or a negative rate.
C21_InvalidConfigFailsStartup ==
    hist.startup \in {"loaded", "listening"} =>
        /\ ~C21_InvalidValues(hist.env)
        /\ config.tps > 0
        /\ config.transientFailureRate >= 0
        /\ config.permanentFailureRate >= 0
        /\ config.timeoutRate >= 0

\* C22: once the config is resolved, each setting whose variable holds a
\* valid value (a TPS > 0, a rate in 0..1, a latency >= 0) equals that value,
\* and a setting equals its default only if the variable is not supplied (or
\* holds the default).
C22_Setting(e, valid, x, d) ==
    /\ (e.set /\ valid) => x = e.v
    /\ x = d => (~e.set \/ e.v = d)

C22_EffectiveEqualsSupplied ==
    hist.startup \in {"loaded", "listening"} =>
        LET e == hist.env IN
        /\ C22_Setting(e.TPS, e.TPS.v > 0, config.tps, DefaultConfig.tps)
        /\ C22_Setting(e.MIN_LATENCY, e.MIN_LATENCY.v >= 0,
                       config.minLatency, DefaultConfig.minLatency)
        /\ C22_Setting(e.TRANSIENT_FAILURE_RATE,
                       e.TRANSIENT_FAILURE_RATE.v >= 0 /\ e.TRANSIENT_FAILURE_RATE.v <= PerUnit,
                       config.transientFailureRate, DefaultConfig.transientFailureRate)
        /\ C22_Setting(e.PERMANENT_FAILURE_RATE,
                       e.PERMANENT_FAILURE_RATE.v >= 0 /\ e.PERMANENT_FAILURE_RATE.v <= PerUnit,
                       config.permanentFailureRate, DefaultConfig.permanentFailureRate)
        /\ C22_Setting(e.TIMEOUT_RATE,
                       e.TIMEOUT_RATE.v >= 0 /\ e.TIMEOUT_RATE.v <= PerUnit,
                       config.timeoutRate, DefaultConfig.timeoutRate)
        /\ config.circuitBreakerEnabled = (e.CIRCUIT_BREAKER = "true")

\* C23: no step other than POST /reset lowers totalRequests,
\* successfulRequests, failedRequests, rateLimitedRequests, timeoutRequests
\* or circuitBreakerTrips.
C23_MonotoneStep ==
    response'.kind # "reset" =>
        /\ metrics'.totalRequests >= metrics.totalRequests
        /\ metrics'.successfulRequests >= metrics.successfulRequests
        /\ metrics'.failedRequests >= metrics.failedRequests
        /\ metrics'.rateLimitedRequests >= metrics.rateLimitedRequests
        /\ metrics'.timeoutRequests >= metrics.timeoutRequests
        /\ metrics'.circuitBreakerTrips >= metrics.circuitBreakerTrips

C23_CountersMonotone == [][C23_MonotoneStep]_vars

\* A trial request has closed the breaker: the trip that opened it is still
\* counted, next to a failed and a successful request.
C23_Witness ==
    /\ hist.lastReport = "success"
    /\ hist.reportPhase = "HALF_OPEN"
    /\ circuitBreaker.state = "CLOSED"
    /\ metrics.circuitBreakerTrips = 1
    /\ metrics.failedRequests >= 1
    /\ metrics.successfulRequests >= 1

\* C25: with the breaker enabled, the completion of an admitted request is
\* its one report to the breaker: a TIMEOUT, PERMANENT_FAILURE or
\* TRANSIENT_FAILURE adds one to failures and sets lastFailure to the current
\* time, whatever the phase; a SUCCESS leaves lastFailure, and leaves failures
\* or (from HALF_OPEN) clears it; an arrival, rejected or admitted, leaves
\* failures and lastFailure; and nothing but a completion or a reset changes them.
C25_ReportsOnceStep ==
    config.circuitBreakerEnabled =>
        /\ \A r \in Requests :
              /\ (Completes(r) /\ req[r].outcome # "SUCCESS") =>
                    /\ circuitBreaker'.failures = circuitBreaker.failures + 1
                    /\ circuitBreaker'.lastFailure = now
              /\ (Completes(r) /\ req[r].outcome = "SUCCESS") =>
                    /\ circuitBreaker'.lastFailure = circuitBreaker.lastFailure
                    /\ circuitBreaker'.failures =
                          IF circuitBreaker.state = "HALF_OPEN" THEN 0
                          ELSE circuitBreaker.failures
              /\ Arrives(r) =>
                    /\ circuitBreaker'.failures = circuitBreaker.failures
                    /\ circuitBreaker'.lastFailure = circuitBreaker.lastFailure
        /\ (\/ circuitBreaker'.failures # circuitBreaker.failures
            \/ circuitBreaker'.lastFailure # circuitBreaker.lastFailure)
              => (response'.kind = "reset" \/ \E r \in Requests : Completes(r))

C25_ReportsOnce == [][C25_ReportsOnceStep]_vars

\* A request admitted before the breaker opened has failed while the phase
\* was OPEN: its failure is counted beyond the threshold.
C25_Witness ==
    /\ config.circuitBreakerEnabled
    /\ hist.lastReport = "failure"
    /\ hist.reportPhase = "OPEN"
    /\ circuitBreaker.failures > config.circuitBreakerThreshold
    /\ circuitBreaker.lastFailure = now

\* C26: with the breaker enabled, while the phase is CLOSED failures is the
\* number of failure reports since the most recent success report or reset.
C26_FailuresAreConsecutive ==
    (config.circuitBreakerEnabled /\ circuitBreaker.state = "CLOSED")
        => circuitBreaker.failures = hist.consecutive

\* C27: a request that passes the gate is admitted with exactly one token
\* debited when tokens >= 1, and is otherwise answered 429 with tokens
\* unchanged; lastRefill is unchanged either way, and the comparison and the
\* debit are one step.
C27_RateCheckStep ==
    \A r \in Requests :
        (Arrives(r) /\ response'.kind # "breaker_open") =>
            /\ lastRefill' = lastRefill
            /\ IF tokens >= UnitsPerSecond
               THEN /\ tokens' = tokens - UnitsPerSecond
                    /\ req'[r].pc = "waiting"
               ELSE /\ tokens' = tokens
                    /\ response'.kind = "rate_limited"
                    /\ response'.to = r

C27_RateCheck == [][C27_RateCheckStep]_vars

\* A request has been admitted from a bucket holding a whole token and a
\* fraction, while another was in its delay: the fraction is left.
C27_Witness ==
    /\ hist.burstAdmitted = 1
    /\ hist.burstTokens > UnitsPerSecond
    /\ tokens = hist.burstTokens - UnitsPerSecond
    /\ tokens % UnitsPerSecond # 0
    /\ Cardinality(Waiting) >= 2

\* C29: the section before the delay is one step that ends in a rejection or
\* in the suspension of the request, with a delay of timeoutDuration for a
\* TIMEOUT and of a latency between minLatency and maxLatency otherwise; a
\* suspended request changes only by the one step that completes it, no
\* earlier than the end of its delay; and any other request can arrive
\* meanwhile.
C29_SuspensionStep ==
    \A r \in Requests :
        /\ (Arrives(r) /\ req'[r].pc = "waiting") =>
              /\ metrics'.totalRequests = metrics.totalRequests + 1
              /\ tokens' = tokens - UnitsPerSecond
              /\ req'[r].startTime = now
              /\ IF req'[r].outcome = "TIMEOUT"
                 THEN req'[r].wake - now = config.timeoutDuration
                 ELSE /\ req'[r].wake - now >= config.minLatency
                      /\ req'[r].wake - now <= config.maxLatency
        /\ Arrives(r) => req'[r].pc \in {"waiting", "done"}
        /\ req[r].pc = "waiting" => (req'[r] = req[r] \/ Completes(r))
        /\ Completes(r) => now >= req[r].wake

C29_OnlySuspension == [][C29_SuspensionStep]_vars

\* While a timing-out request is suspended, a later request has been admitted
\* and has already been answered.
C29_Witness ==
    /\ req[1].pc = "waiting"
    /\ req[1].outcome = "TIMEOUT"
    /\ req[1].startTime < now
    /\ req[2].pc = "done"
    /\ response.to = 2
    /\ response.kind = "success"

\* C30: every arrival of a POST /pay adds exactly one to totalRequests,
\* rejected or not, and no other step but a reset changes it: totalRequests is
\* the number of requests that have arrived since startup or the last reset.
C30_CountedStep ==
    /\ \A r \in Requests :
          Arrives(r) => metrics'.totalRequests = metrics.totalRequests + 1
    /\ metrics'.totalRequests # metrics.totalRequests
          => (response'.kind = "reset" \/ \E r \in Requests : Arrives(r))

C30_TotalCountsArrivals ==
    [](metrics.totalRequests = hist.arrived) /\ [][C30_CountedStep]_vars

\* Three requests have arrived, one rejected by the breaker and one by the
\* rate limiter: all three are counted.
C30_Witness ==
    /\ metrics.totalRequests = 3
    /\ metrics.rateLimitedRequests = 1
    /\ metrics.failedRequests = 2
    /\ circuitBreaker.state = "OPEN"
    /\ \A r \in Requests : req[r].pc = "done"

\* C24: a step that answers GET /health, GET /metrics or GET /config leaves
\* tokens, lastRefill, the breaker, the metrics and the config unchanged (and
\* the requests in flight); and no step at all changes the config.
C24_ReadOnlyStep ==
    /\ response'.kind \in {"health", "metrics", "config"} =>
          /\ tokens' = tokens
          /\ lastRefill' = lastRefill
          /\ circuitBreaker' = circuitBreaker
          /\ metrics' = metrics
          /\ req' = req
          /\ now' = now
    /\ config' = config

C24_ReadsAreReadOnly == [][C24_ReadOnlyStep]_vars

\* GET /health has answered while the bucket held a fraction of a token, the
\* breaker was OPEN and a request was in its delay.
C24_Witness ==
    /\ response.kind = "health"
    /\ tokens % UnitsPerSecond # 0
    /\ circuitBreaker.state = "OPEN"
    /\ Waiting # {}

\* C28: run beside the code's bucket on the same requests and the same
\* elapsed time, the lazy bucket holds the code's level at every firing of the
\* refill timer and decides every rate check as the code does.
C28_TickMatchesLazy ==
    hist.lazy.on => (hist.lazy.levels /\ hist.lazy.decisions)

\* C31: the gate of the breaker is evaluated before the rate check. A request
\* that arrives while the breaker is OPEN and its recovery time has not passed
\* is answered by the gate whatever the bucket holds, also less than one
\* token; that rejection leaves tokens and rateLimitedRequests unchanged and
\* adds one to failedRequests.
C31_GateFirstStep ==
    \A r \in Requests :
       Arrives(r) =>
          /\ (circuitBreaker.state = "OPEN"
                 /\ now - circuitBreaker.lastFailure <= config.circuitBreakerTimeout)
                => response'.kind = "breaker_open"
          /\ response'.kind = "breaker_open" =>
                /\ response'.status = 503
                /\ tokens' = tokens
                /\ metrics'.rateLimitedRequests = metrics.rateLimitedRequests
                /\ metrics'.failedRequests = metrics.failedRequests + 1

C31_GateBeforeRateCheck == [][C31_GateFirstStep]_vars

\* The gate has rejected a request while the bucket held no token: no rate
\* limit was counted.
C31_Witness ==
    /\ response.kind = "breaker_open"
    /\ tokens < UnitsPerSecond
    /\ metrics.rateLimitedRequests = 0
    /\ metrics.failedRequests = 2
    /\ metrics.totalRequests = 3

\* C32: whenever the phase changes to CLOSED from another phase (a success
\* reported in HALF_OPEN, a reset in any phase), failures is 0 in the state
\* the step ends in.
C32_ClosesWithZeroStep ==
    (circuitBreaker.state # "CLOSED" /\ circuitBreaker'.state = "CLOSED")
       => circuitBreaker'.failures = 0

C32_ClosesWithZeroFailures == [][C32_ClosesWithZeroStep]_vars

\* The trial request of a breaker that had counted two failures has succeeded.
C32_Witness ==
    /\ hist.lastReport = "success"
    /\ hist.reportPhase = "HALF_OPEN"
    /\ circuitBreaker.state = "CLOSED"
    /\ circuitBreaker.failures = 0
    /\ metrics.failedRequests + metrics.timeoutRequests = 2

\* C33: the phase changes only along CLOSED -> OPEN and HALF_OPEN -> OPEN
\* (a failure report), OPEN -> HALF_OPEN (the gate of an arriving request),
\* HALF_OPEN -> CLOSED (a success report) and any phase -> CLOSED (a reset);
\* a success reported while the phase is OPEN or CLOSED leaves it unchanged.
C33_EdgeStep ==
    LET from == circuitBreaker.state
        to == circuitBreaker'.state
        reports == \E r \in Requests : Completes(r)
        arrives == \E r \in Requests : Arrives(r)
    IN  /\ from # to =>
              \/ response'.kind = "reset" /\ to = "CLOSED"
              \/ /\ reports /\ hist'.lastReport = "failure"
                 /\ from \in {"CLOSED", "HALF_OPEN"} /\ to = "OPEN"
              \/ /\ reports /\ hist'.lastReport = "success"
                 /\ from = "HALF_OPEN" /\ to = "CLOSED"
              \/ arrives /\ from = "OPEN" /\ to = "HALF_OPEN"
        /\ (reports /\ hist'.lastReport = "success" /\ from \in {"OPEN", "CLOSED"})
              => to = from

C33_PhaseEdges == [][C33_EdgeStep]_vars

\* A request admitted before the trip has reported its success while the
\* phase was OPEN, and the phase is still OPEN.
C33_Witness ==
    /\ hist.lastReport = "success"
    /\ hist.reportPhase = "OPEN"
    /\ circuitBreaker.state = "OPEN"
    /\ response.kind = "success"

\* C34: with the breaker enabled (and a threshold of at least 1), the phase
\* is CLOSED exactly when failures is below circuitBreakerThreshold.
C34_ClosedIffBelowThreshold ==
    (config.circuitBreakerEnabled /\ config.circuitBreakerThreshold >= 1) =>
       (circuitBreaker.state = "CLOSED"
           <=> circuitBreaker.failures < config.circuitBreakerThreshold)

\* The phase is HALF_OPEN with more failures counted than the threshold.
C34_Witness ==
    /\ config.circuitBreakerEnabled
    /\ circuitBreaker.state = "HALF_OPEN"
    /\ circuitBreaker.failures > config.circuitBreakerThreshold

\* C35: in every reachable state, also after POST /reset has run while
\* requests were in their delay, successfulRequests + failedRequests +
\* rateLimitedRequests + timeoutRequests is at most totalRequests.
C35_OutcomesWithinTotal ==
    metrics.successfulRequests + metrics.failedRequests
       + metrics.rateLimitedRequests + metrics.timeoutRequests
          <= metrics.totalRequests

\* C36: a failure reported while the phase is OPEN, by a request admitted
\* before the trip, leaves lastFailure as the tripping failure set it.
C36_OpenKeepsLastFailureStep ==
    \A r \in Requests :
       (Completes(r) /\ circuitBreaker.state = "OPEN" /\ hist'.lastReport = "failure")
          => circuitBreaker'.lastFailure = circuitBreaker.lastFailure

C36_OpenKeepsLastFailure == [][C36_OpenKeepsLastFailureStep]_vars

\* C38: without a reset, the number of requests that have passed the rate
\* check since startup is at most burstSize + tps * (seconds elapsed since
\* startup), and tokens never exceeds burstSize. (The clock is counted in
\* refill periods from 1 and tokens in 1/UnitsPerSecond.)
C38_AdmissionsBounded ==
    /\ hist.admitted * UnitsPerSecond <= Full + config.tps * (now - 1)
    /\ tokens <= Full

\* Three requests have passed the rate check and the bound is met with
\* equality: the burst and every token credited since startup are spent.
C38_Witness ==
    /\ hist.admitted = 3
    /\ hist.admitted * UnitsPerSecond = Full + config.tps * (now - 1)
    /\ tokens = 0

\* C37: if the breaker is OPEN, no reset occurs and POST /pay requests keep
\* arriving, the breaker eventually leaves OPEN: the requests in flight
\* cannot keep it OPEN for ever.
C37_EventuallyLeavesOpen ==
    (circuitBreaker.state = "OPEN") ~> (circuitBreaker.state # "OPEN")

\* The breaker has left OPEN after a request in flight had reported a failure
\* to the open breaker, moved by the gate check of a request that the rate
\* check then rejected.
C37_Witness ==
    /\ circuitBreaker.state = "HALF_OPEN"
    /\ circuitBreaker.failures = config.circuitBreakerThreshold + 1
    /\ circuitBreaker.lastFailure = 0
    /\ response.kind = "rate_limited"

====
